---- MODULE Spec2Model ----
(***************************************************************************)
(* Retrieval-augmented context engine of mini-task-botbuilder.             *)
(*                                                                         *)
(* Part 1 models backend/services/vector_service.py: one VectorService     *)
(* object (its FAISS index, its parallel metadata list), the two files it  *)
(* persists to, and the operations add / remove / recover / validate /     *)
(* search, plus the construction of a new object over the files.           *)
(*                                                                         *)
(* Part 2 models RAGService.manage_context_length of                       *)
(* backend/services/rag_service.py as a function on strings, a string      *)
(* being a sequence of lexical pieces.                                     *)
(* and validate_context_relevance.                                         *)
(*                                                                         *)
(* Part 3 models generate_context and get_dynamic_context with the tier    *)
(* renderers, and DatabaseService.delete_conversation.  Part 4 models a    *)
(* process that holds several VectorService objects over the same files.   *)
(* Part 5 models which calls raise and which except clauses catch.         *)
(***************************************************************************)
EXTENDS Integers, Sequences, FiniteSets, TLC

(***************************************************************************)
(* Bounds of the model.                                                    *)
(***************************************************************************)
MaxVectors == 2        \* vectors (or metadata records) a store holds when saves may fail
MaxStored == 4         \* vectors a store holds when every save succeeds
MaxFaults == 1         \* failing saves in one behaviour
MaxK == 2              \* largest k asked of a search

(***************************************************************************)
(* Program constants.                                                      *)
(***************************************************************************)
min_similarity_threshold == 30   \* 0.3, in hundredths
oversample == 3                  \* search_k = min(k * 3, ntotal)

(***************************************************************************)
(* Input domains.                                                          *)
(***************************************************************************)
Convs == {"A", "B"}
NoConv == "None"                 \* conversation_id None (or any falsy id)
Texts == {"t1", "t2"}            \* contents that are non-empty after strip()
Blank == "blank"                 \* a content that strip() leaves empty
Contents == Texts \cup {Blank}
Queries == {"q1", "q2"}
NoScore == -1                    \* min_score = None
MinScores == {NoScore, 15, 45}
Ks == 0..MaxK
SaveModes == {"ok", "fail_index", "fail_meta"}

MessageLists ==
    {<<>>, <<Blank>>, <<"t1">>, <<"t2">>, <<"t2", Blank, "t1">>}

(* The embedding provider: text -> vector, deterministic.  A vector is    *)
(* named by a number; Score gives its inner product with the embedding of  *)
(* a query, in hundredths.                                                 *)
encode(text) == IF text = "t1" THEN 1 ELSE 2

Score(q, v) ==
    IF q = "q1" THEN (IF v = 1 THEN 50 ELSE 20)
                ELSE (IF v = 1 THEN 10 ELSE 40)

VARIABLES
    index,       \* self.index: the sequence of stored vectors (position = FAISS id + 1)
    metadata,    \* self.metadata: list of records
    indexFile,   \* the file at index_path
    metaFile,    \* the file at metadata_path
    faults,      \* saves that failed so far
    lastOp,      \* the last call that returned, of add, remove, recover and
                 \* the constructor: its arguments and result
    context,     \* manage_context_length: the rendered context passed in
    query,       \* manage_context_length: the query passed in
    max_tokens,  \* manage_context_length: the budget passed in
    managed,     \* manage_context_length: the string returned
    phase,       \* "idle", "called", "returned" or "generated"
    request,     \* generate_context: the query, the conversation and its state
    tier,        \* get_dynamic_context: the branch that produced the context
    measured,    \* validate_context_relevance: what it measures on its arguments
    validation,  \* validate_context_relevance: the analysis returned
    instances,   \* the other VectorService objects of the process: their
                 \* self.index and self.metadata
    total_searches,       \* self._total_searches
    successful_searches,  \* self._successful_searches
    total_results,        \* self._total_results
    found,       \* the list the last search_similar_messages call returned
    handlers     \* the calls in progress on the store: position and locals

storeVars == <<index, metadata, indexFile, metaFile, faults, lastOp>>
contextVars ==
    <<context, query, max_tokens, managed, phase, request, tier, measured, validation,
      instances>>
analyticsVars == <<total_searches, successful_searches, total_results>>
serverVars == <<found, handlers>>
vars == <<storeVars, contextVars, analyticsVars, serverVars>>

(* A call in progress: where it stands (pc) and its local variables. *)
Workers == {"h1", "h2"}

Idle ==
    [pc |-> "idle", conv |-> NoConv, texts |-> <<>>, q |-> "q1", k |-> 0,
     min_score |-> NoScore, new_index |-> <<>>, new_metadata |-> <<>>,
     scored |-> <<>>, pre_aligned |-> TRUE]

NoRequest ==
    [q |-> "q1", conversation_id |-> NoConv, messages |-> <<>>, topics |-> <<>>,
     embed_ok |-> TRUE]

NoMeasure == [chars |-> "normal", overlap |-> 0, topic_match |-> FALSE, raises |-> FALSE]

NoValidation == [relevance_score |-> 0, has_relevant_context |-> FALSE, issues |-> {}, error |-> FALSE]

(* The VectorService objects a process holds besides the one of its        *)
(* DatabaseService: RAGService().vector_service and a VectorService() made *)
(* on its own (test_rag.py:27-29).                                         *)
Owners == {"rag_service", "vector_service"}

NoInstances == [o \in Owners |-> [index |-> <<>>, metadata |-> <<>>]]

Absent == [exists |-> FALSE, data |-> <<>>]
FileOf(data) == [exists |-> TRUE, data |-> data]

Min(a, b) == IF a <= b THEN a ELSE b

OpRecord(op, conv, messages, embed_ok, ret, pre_aligned) ==
    [op |-> op, conv |-> conv, messages |-> messages, embed_ok |-> embed_ok,
     ret |-> ret, pre_aligned |-> pre_aligned]

Returned(op, conv, messages, embed_ok, ret) ==
    lastOp' = OpRecord(op, conv, messages, embed_ok, ret,
                       Len(index) = Len(metadata))

(***************************************************************************)
(* _load_or_create_index: both files present -> load them as they are;     *)
(* otherwise a new empty index and an empty metadata list.                 *)
(***************************************************************************)
load_or_create_index(ifile, mfile) ==
    IF ifile.exists /\ mfile.exists
    THEN [index |-> ifile.data, metadata |-> mfile.data]
    ELSE [index |-> <<>>, metadata |-> <<>>]

(***************************************************************************)
(* _save_index: write_index, then open + pickle.dump; an exception is      *)
(* logged and swallowed.  mode "fail_index": write_index raises, nothing   *)
(* is written.  mode "fail_meta": the index file is written, opening the   *)
(* metadata file raises, the old metadata file stays.                      *)
(***************************************************************************)
save_index_skips_metadata(mode, idx, md) ==
    /\ indexFile' = IF mode \in {"ok", "fail_meta"} THEN FileOf(idx) ELSE indexFile
    /\ metaFile' = metaFile
    /\ faults' = IF mode = "ok" THEN faults ELSE faults + 1

save_index(mode, idx, md) ==
    /\ indexFile' = IF mode \in {"ok", "fail_meta"} THEN FileOf(idx) ELSE indexFile
    /\ metaFile' = IF mode = "ok" THEN FileOf(md) ELSE metaFile
    /\ faults' = IF mode = "ok" THEN faults ELSE faults + 1

(***************************************************************************)
(* validate_index                                                          *)
(***************************************************************************)
validate_without_empty_check(idx, md) == Len(md) = Len(idx)

validate(idx, md) ==
    IF Len(md) # Len(idx) THEN FALSE
    ELSE IF Len(idx) = 0 THEN FALSE
    ELSE TRUE

validate_index == validate(index, metadata)

(***************************************************************************)
(* search_similar_messages, as a function of the store and its arguments.  *)
(* index.search returns the search_k best positions by inner product, best *)
(* first (equal scores: lower position first).  A query embedding that     *)
(* fails, or search_k = 0, raises inside the try block: the result is [].  *)
(***************************************************************************)
RECURSIVE TopK(_, _, _, _)
TopK(idx, q, n, taken) ==
    IF n = 0 THEN <<>>
    ELSE LET rest == (1..Len(idx)) \ taken
             best == CHOOSE p \in rest : \A o \in rest :
                        \/ Score(q, idx[p]) > Score(q, idx[o])
                        \/ Score(q, idx[p]) = Score(q, idx[o]) /\ p <= o
         IN <<best>> \o TopK(idx, q, n - 1, taken \cup {best})

Threshold_ignores_min_score(min_score) == min_similarity_threshold

Threshold(min_score) ==
    IF min_score # NoScore THEN min_score ELSE min_similarity_threshold

SearchK_whole_index(idx, k) == Len(idx)

SearchK(idx, k) == Min(k * oversample, Len(idx))

Hit(idx, md, q, p) ==
    [score |-> Score(q, idx[p]),
     conversation_id |-> md[p].conversation_id,
     content_preview |-> md[p].content_preview]

RECURSIVE Collect(_, _, _, _, _, _, _, _)
Collect(idx, md, q, conversation_id, k, threshold, cands, results) ==
    IF cands = <<>> THEN results
    ELSE LET p == Head(cands)
             next == Tail(cands)
         IN IF Score(q, idx[p]) < threshold
            THEN Collect(idx, md, q, conversation_id, k, threshold, next, results)
            ELSE IF p <= Len(md)
            THEN IF conversation_id # NoConv /\ md[p].conversation_id # conversation_id
                 THEN Collect(idx, md, q, conversation_id, k, threshold, next, results)
                 ELSE LET more == Append(results, Hit(idx, md, q, p))
                      IN IF Len(more) >= k THEN more
                         ELSE Collect(idx, md, q, conversation_id, k, threshold, next, more)
            ELSE Collect(idx, md, q, conversation_id, k, threshold, next, results)

search_similar_messages(idx, md, q, conversation_id, k, min_score, embed_ok) ==
    IF ~embed_ok THEN <<>>
    ELSE IF SearchK(idx, k) <= 0 THEN <<>>
    ELSE Collect(idx, md, q, conversation_id, k, Threshold(min_score),
                 TopK(idx, q, SearchK(idx, k), {}), <<>>)

Search(q, conversation_id, k, min_score, embed_ok) ==
    search_similar_messages(index, metadata, q, conversation_id, k, min_score, embed_ok)

ConvFilters == Convs \cup {NoConv}

(***************************************************************************)
(* add_conversation_embeddings                                             *)
(***************************************************************************)
IsValidText(content) == content # Blank

ValidTexts_without_strip(messages) == messages

ValidTexts(messages) == SelectSeq(messages, IsValidText)

MessageMetadata(conversation_id, texts) ==
    [i \in 1..Len(texts) |->
        [conversation_id |-> conversation_id, content_preview |-> texts[i]]]

Embeddings(texts) == [i \in 1..Len(texts) |-> encode(texts[i])]

add_conversation_embeddings_save_raises(conversation_id, messages, embed_ok, mode) ==
    LET texts == ValidTexts(messages) IN
    IF texts = <<>>
    THEN /\ embed_ok /\ mode = "ok"
         /\ UNCHANGED <<index, metadata, indexFile, metaFile, faults>>
         /\ Returned("add", conversation_id, messages, embed_ok, FALSE)
    ELSE IF ~embed_ok
    THEN /\ mode = "ok"
         /\ UNCHANGED <<index, metadata, indexFile, metaFile, faults>>
         /\ Returned("add", conversation_id, messages, embed_ok, FALSE)
    ELSE /\ index' = index \o Embeddings(texts)
         /\ metadata' = metadata \o MessageMetadata(conversation_id, texts)
         /\ save_index(mode, index', metadata')
         /\ Returned("add", conversation_id, messages, embed_ok, mode = "ok")

add_conversation_embeddings(conversation_id, messages, embed_ok, mode) ==
    LET texts == ValidTexts(messages) IN
    IF texts = <<>>
    THEN /\ embed_ok /\ mode = "ok"          \* neither encode nor save is reached
         /\ UNCHANGED <<index, metadata, indexFile, metaFile, faults>>
         /\ Returned("add", conversation_id, messages, embed_ok, FALSE)
    ELSE IF ~embed_ok
    THEN /\ mode = "ok"                      \* encode raised: save is not reached
         /\ UNCHANGED <<index, metadata, indexFile, metaFile, faults>>
         /\ Returned("add", conversation_id, messages, embed_ok, FALSE)
    ELSE /\ index' = index \o Embeddings(texts)
         /\ metadata' = metadata \o MessageMetadata(conversation_id, texts)
         /\ save_index(mode, index', metadata')
         /\ Returned("add", conversation_id, messages, embed_ok, TRUE)

(***************************************************************************)
(* remove_conversation_embeddings: rebuild without the conversation.       *)
(* index.reconstruct(i) raises when i is not a stored vector; the handler  *)
(* then returns False with self.index and self.metadata untouched.         *)
(***************************************************************************)
RECURSIVE KeptPositions_keeps_first(_, _, _)
KeptPositions_keeps_first(md, conversation_id, i) ==
    IF i > Len(md) THEN <<>>
    ELSE IF i = 1 \/ md[i].conversation_id # conversation_id
         THEN <<i>> \o KeptPositions_keeps_first(md, conversation_id, i + 1)
         ELSE KeptPositions_keeps_first(md, conversation_id, i + 1)

RECURSIVE KeptPositions(_, _, _)
KeptPositions(md, conversation_id, i) ==
    IF i > Len(md) THEN <<>>
    ELSE IF md[i].conversation_id # conversation_id
         THEN <<i>> \o KeptPositions(md, conversation_id, i + 1)
         ELSE KeptPositions(md, conversation_id, i + 1)

(* reconstruct raised inside the loop: new_index and new_metadata are     *)
(* locals, nothing of the object or of the files has been touched.       *)
remove_aborted_after_swap(conversation_id) ==
    /\ index' = <<>>
    /\ metadata' = <<>>
    /\ UNCHANGED <<indexFile, metaFile, faults>>
    /\ Returned("remove", conversation_id, <<>>, TRUE, FALSE)

remove_aborted(conversation_id) ==
    /\ UNCHANGED <<index, metadata, indexFile, metaFile, faults>>
    /\ Returned("remove", conversation_id, <<>>, TRUE, FALSE)

remove_conversation_embeddings_reverses_vectors(conversation_id, mode) ==
    LET kept == KeptPositions(metadata, conversation_id, 1) IN
    IF \E j \in 1..Len(kept) : kept[j] > Len(index)
    THEN mode = "ok" /\ remove_aborted(conversation_id)
    ELSE /\ index' = [j \in 1..Len(kept) |-> index[kept[Len(kept) + 1 - j]]]
         /\ metadata' = [j \in 1..Len(kept) |-> metadata[kept[j]]]
         /\ save_index(mode, index', metadata')
         /\ Returned("remove", conversation_id, <<>>, TRUE, TRUE)

remove_conversation_embeddings(conversation_id, mode) ==
    LET kept == KeptPositions(metadata, conversation_id, 1) IN
    IF \E j \in 1..Len(kept) : kept[j] > Len(index)
    THEN mode = "ok" /\ remove_aborted(conversation_id)
    ELSE /\ index' = [j \in 1..Len(kept) |-> index[kept[j]]]
         /\ metadata' = [j \in 1..Len(kept) |-> metadata[kept[j]]]
         /\ save_index(mode, index', metadata')
         /\ Returned("remove", conversation_id, <<>>, TRUE, TRUE)

(***************************************************************************)
(* recover_index                                                           *)
(***************************************************************************)
recover_index_keeps_metadata(mode) ==
    /\ index' = <<>>
    /\ metadata' = metadata
    /\ save_index(mode, index', metadata')
    /\ Returned("recover", NoConv, <<>>, TRUE, TRUE)

recover_index(mode) ==
    /\ index' = <<>>
    /\ metadata' = <<>>
    /\ save_index(mode, index', metadata')
    /\ Returned("recover", NoConv, <<>>, TRUE, TRUE)

(***************************************************************************)
(* VectorService.__init__ over the files left by the previous object.      *)
(***************************************************************************)
NewService ==
    LET loaded == load_or_create_index(indexFile, metaFile) IN
    /\ index' = loaded.index
    /\ metadata' = loaded.metadata
    /\ UNCHANGED <<indexFile, metaFile, faults>>
    /\ Returned("init", NoConv, <<>>, TRUE, TRUE)
    /\ total_searches' = 0 /\ successful_searches' = 0 /\ total_results' = 0
    /\ UNCHANGED <<contextVars, serverVars>>

Init ==
    /\ indexFile = Absent
    /\ metaFile = Absent
    /\ index = load_or_create_index(Absent, Absent).index
    /\ metadata = load_or_create_index(Absent, Absent).metadata
    /\ faults = 0
    /\ lastOp = OpRecord("init", NoConv, <<>>, TRUE, TRUE, TRUE)
    /\ context = <<>> /\ query = <<>> /\ max_tokens = 0
    /\ managed = <<>> /\ phase = "idle"
    /\ request = NoRequest /\ tier = "none"
    /\ measured = NoMeasure /\ validation = NoValidation
    /\ total_searches = 0 /\ successful_searches = 0 /\ total_results = 0
    /\ found = <<>>
    /\ handlers = [w \in Workers |-> Idle]
    /\ instances = NoInstances

ModeAllowed(mode) == mode = "ok" \/ faults < MaxFaults

Fits(msgs, bound) ==
    /\ Len(index) + Len(ValidTexts(msgs)) <= bound
    /\ Len(metadata) + Len(ValidTexts(msgs)) <= bound

Add ==
    \E c \in Convs, msgs \in MessageLists, ok \in BOOLEAN, mode \in SaveModes :
        /\ ModeAllowed(mode)
        /\ Fits(msgs, MaxVectors)
        /\ add_conversation_embeddings(c, msgs, ok, mode)
        /\ UNCHANGED <<contextVars, analyticsVars, serverVars>>

Remove ==
    \E c \in Convs, mode \in SaveModes :
        /\ ModeAllowed(mode)
        /\ remove_conversation_embeddings(c, mode)
        /\ UNCHANGED <<contextVars, analyticsVars, serverVars>>

Recover ==
    \E mode \in SaveModes :
        /\ ModeAllowed(mode)
        /\ recover_index(mode)
        /\ UNCHANGED <<contextVars, analyticsVars, serverVars>>

Next == Add \/ Remove \/ Recover \/ NewService

(* One VectorService after another over the same two files; a save may fail. *)
Spec == Init /\ [][Next]_vars

(* The same store when no save fails: it is explored up to MaxStored vectors. *)
AddSaved ==
    \E c \in Convs, msgs \in MessageLists, ok \in BOOLEAN :
        /\ Fits(msgs, MaxStored)
        /\ add_conversation_embeddings(c, msgs, ok, "ok")
        /\ UNCHANGED <<contextVars, analyticsVars, serverVars>>

RemoveSaved ==
    \E c \in Convs :
        remove_conversation_embeddings(c, "ok") /\ UNCHANGED <<contextVars, analyticsVars, serverVars>>

RecoverSaved == recover_index("ok") /\ UNCHANGED <<contextVars, analyticsVars, serverVars>>

NextNoFault == AddSaved \/ RemoveSaved \/ RecoverSaved \/ NewService

SpecNoFault == Init /\ [][NextNoFault]_vars

(***************************************************************************)
(* The store as the server uses it (main.py): every endpoint is an         *)
(* async def whose body calls the services synchronously and never awaits, *)
(* so the event loop runs one handler to its return before it starts the   *)
(* next.  The calls are modelled statement by statement: each action below *)
(* is one read or one assignment of self.index or self.metadata.           *)
(***************************************************************************)
MaxServed == 2         \* vectors the served store holds
MaxSearches == 2       \* searches in one behaviour

IdleWorkers == {w \in Workers : handlers[w].pc = "idle"}

FreeWorker == CHOOSE w \in IdleWorkers : TRUE

CanStart_threadpool == IdleWorkers # {}

CanStart == IdleWorkers = Workers

At(w, pc) == handlers[w].pc = pc

Goto(w, pc) == handlers' = [handlers EXCEPT ![w].pc = pc]

Return(w) == handlers' = [handlers EXCEPT ![w] = Idle]

(* add_conversation_embeddings(conversation_id, [message_data]) *)
ServedContents == {"t1", Blank}

BeginAdd ==
    \E c \in Convs, content \in ServedContents, ok \in BOOLEAN :
        LET texts == ValidTexts(<<content>>) IN
        /\ CanStart
        /\ Len(index) < MaxServed /\ Len(metadata) < MaxServed
        /\ IF texts = <<>> \/ ~ok
           THEN /\ texts = <<>> => ok
                /\ Returned("add", c, <<content>>, ok, FALSE)
                /\ UNCHANGED handlers
           ELSE /\ handlers' = [handlers EXCEPT ![FreeWorker] =
                    [Idle EXCEPT !.pc = "add_index", !.conv = c, !.texts = texts,
                                 !.pre_aligned = (Len(index) = Len(metadata))]]
                /\ UNCHANGED lastOp
        /\ UNCHANGED <<index, metadata, indexFile, metaFile, faults>>
        /\ UNCHANGED <<contextVars, analyticsVars, found>>

AddIndex ==
    \E w \in Workers :
        /\ At(w, "add_index")
        /\ index' = index \o Embeddings(handlers[w].texts)
        /\ Goto(w, "add_metadata")
        /\ UNCHANGED <<metadata, indexFile, metaFile, faults, lastOp>>
        /\ UNCHANGED <<contextVars, analyticsVars, found>>

AddMetadata ==
    \E w \in Workers :
        /\ At(w, "add_metadata")
        /\ metadata' = metadata \o MessageMetadata(handlers[w].conv, handlers[w].texts)
        /\ Goto(w, "add_save")
        /\ UNCHANGED <<index, indexFile, metaFile, faults, lastOp>>
        /\ UNCHANGED <<contextVars, analyticsVars, found>>

AddSaveStep(w, mode) ==
    /\ At(w, "add_save")
    /\ save_index(mode, index, metadata)
    /\ lastOp' = OpRecord("add", handlers[w].conv, handlers[w].texts, TRUE, TRUE,
                          handlers[w].pre_aligned)
    /\ Return(w)
    /\ UNCHANGED <<index, metadata>>
    /\ UNCHANGED <<contextVars, analyticsVars, found>>

AddSave == \E w \in Workers : AddSaveStep(w, "ok")

(* remove_conversation_embeddings(conversation_id) *)
BeginRemove ==
    \E c \in Convs :
        LET kept == KeptPositions(metadata, c, 1) IN
        /\ CanStart
        /\ IF \E j \in 1..Len(kept) : kept[j] > Len(index)
           THEN /\ Returned("remove", c, <<>>, TRUE, FALSE)
                /\ UNCHANGED handlers
           ELSE /\ handlers' = [handlers EXCEPT ![FreeWorker] =
                    [Idle EXCEPT !.pc = "remove_swap_index", !.conv = c,
                                 !.new_index = [j \in 1..Len(kept) |-> index[kept[j]]],
                                 !.new_metadata = [j \in 1..Len(kept) |-> metadata[kept[j]]],
                                 !.pre_aligned = (Len(index) = Len(metadata))]]
                /\ UNCHANGED lastOp
        /\ UNCHANGED <<index, metadata, indexFile, metaFile, faults>>
        /\ UNCHANGED <<contextVars, analyticsVars, found>>

RemoveSwapIndex ==
    \E w \in Workers :
        /\ At(w, "remove_swap_index")
        /\ index' = handlers[w].new_index
        /\ Goto(w, "remove_swap_metadata")
        /\ UNCHANGED <<metadata, indexFile, metaFile, faults, lastOp>>
        /\ UNCHANGED <<contextVars, analyticsVars, found>>

RemoveSwapMetadata ==
    \E w \in Workers :
        /\ At(w, "remove_swap_metadata")
        /\ metadata' = handlers[w].new_metadata
        /\ Goto(w, "remove_save")
        /\ UNCHANGED <<index, indexFile, metaFile, faults, lastOp>>
        /\ UNCHANGED <<contextVars, analyticsVars, found>>

RemoveSaveStep(w, mode) ==
    /\ At(w, "remove_save")
    /\ save_index(mode, index, metadata)
    /\ lastOp' = OpRecord("remove", handlers[w].conv, <<>>, TRUE, TRUE,
                          handlers[w].pre_aligned)
    /\ Return(w)
    /\ UNCHANGED <<index, metadata>>
    /\ UNCHANGED <<contextVars, analyticsVars, found>>

RemoveSave == \E w \in Workers : RemoveSaveStep(w, "ok")

(* recover_index() *)
BeginRecover ==
    /\ CanStart
    /\ index' = <<>>
    /\ handlers' = [handlers EXCEPT ![FreeWorker] =
            [Idle EXCEPT !.pc = "recover_metadata",
                         !.pre_aligned = (Len(index) = Len(metadata))]]
    /\ UNCHANGED <<metadata, indexFile, metaFile, faults, lastOp>>
    /\ UNCHANGED <<contextVars, analyticsVars, found>>

RecoverMetadata ==
    \E w \in Workers :
        /\ At(w, "recover_metadata")
        /\ metadata' = <<>>
        /\ Goto(w, "recover_save")
        /\ UNCHANGED <<index, indexFile, metaFile, faults, lastOp>>
        /\ UNCHANGED <<contextVars, analyticsVars, found>>

RecoverSaveStep(w, mode) ==
    /\ At(w, "recover_save")
    /\ save_index(mode, index, metadata)
    /\ lastOp' = OpRecord("recover", NoConv, <<>>, TRUE, TRUE, handlers[w].pre_aligned)
    /\ Return(w)
    /\ UNCHANGED <<index, metadata>>
    /\ UNCHANGED <<contextVars, analyticsVars, found>>

RecoverSave == \E w \in Workers : RecoverSaveStep(w, "ok")

(* search_similar_messages(query, conversation_id, k, min_score): the      *)
(* counter and the query embedding, then index.search, then the loop over  *)
(* the scored positions, which reads self.metadata.  The /search endpoint   *)
(* passes no min_score.                                                    *)
ServedMinScores == {NoScore}

SearchReturns_counts_empty(results) ==
    /\ found' = results
    /\ successful_searches' = successful_searches + 1
    /\ total_results' = total_results + Len(results)

SearchReturns(results) ==
    /\ found' = results
    /\ successful_searches' =
            IF results # <<>> THEN successful_searches + 1 ELSE successful_searches
    /\ total_results' =
            IF results # <<>> THEN total_results + Len(results) ELSE total_results

BeginSearch ==
    \E q \in Queries, c \in ConvFilters, k \in Ks, ms \in ServedMinScores :
        /\ CanStart
        /\ total_searches < MaxSearches
        /\ total_searches' = total_searches + 1
        /\ handlers' = [handlers EXCEPT ![FreeWorker] =
                [Idle EXCEPT !.pc = "search_encode", !.conv = c, !.q = q,
                             !.k = k, !.min_score = ms]]
        /\ UNCHANGED <<found, successful_searches, total_results>>
        /\ UNCHANGED <<storeVars, contextVars>>

(* self.model.encode([processed_query]): when it raises, the handler       *)
(* returns [] and the counters of the results are not touched.             *)
SearchEncode ==
    \E w \in Workers, ok \in BOOLEAN :
        /\ At(w, "search_encode")
        /\ IF ok
           THEN Goto(w, "search_index") /\ UNCHANGED found
           ELSE Return(w) /\ found' = <<>>
        /\ UNCHANGED <<analyticsVars, storeVars, contextVars>>

SearchIndex ==
    \E w \in Workers :
        /\ At(w, "search_index")
        /\ IF SearchK(index, handlers[w].k) <= 0
           THEN /\ SearchReturns(<<>>)
                /\ Return(w)
           ELSE /\ handlers' = [handlers EXCEPT ![w].pc = "search_metadata",
                                                ![w].scored = index]
                /\ UNCHANGED <<found, successful_searches, total_results>>
        /\ UNCHANGED total_searches
        /\ UNCHANGED <<storeVars, contextVars>>

SearchMetadata ==
    \E w \in Workers :
        LET h == handlers[w] IN
        /\ At(w, "search_metadata")
        /\ SearchReturns(search_similar_messages(h.scored, metadata, h.q, h.conv,
                                                 h.k, h.min_score, TRUE))
        /\ Return(w)
        /\ UNCHANGED total_searches
        /\ UNCHANGED <<storeVars, contextVars>>

NextServer ==
    \/ BeginAdd \/ AddIndex \/ AddMetadata \/ AddSave
    \/ BeginRemove \/ RemoveSwapIndex \/ RemoveSwapMetadata \/ RemoveSave
    \/ BeginRecover \/ RecoverMetadata \/ RecoverSave
    \/ BeginSearch \/ SearchEncode \/ SearchIndex \/ SearchMetadata

(* The served store when every save succeeds. *)
SpecServer == Init /\ [][NextServer]_vars

AddSaveFails ==
    \E w \in Workers, mode \in SaveModes \ {"ok"} :
        ModeAllowed(mode) /\ AddSaveStep(w, mode)

RemoveSaveFails ==
    \E w \in Workers, mode \in SaveModes \ {"ok"} :
        ModeAllowed(mode) /\ RemoveSaveStep(w, mode)

RecoverSaveFails ==
    \E w \in Workers, mode \in SaveModes \ {"ok"} :
        ModeAllowed(mode) /\ RecoverSaveStep(w, mode)

Restart == CanStart /\ NewService

NextServerFaults ==
    \/ NextServer
    \/ AddSaveFails \/ RemoveSaveFails \/ RecoverSaveFails \/ Restart

(* The served store when a save may fail and the server may be restarted. *)
SpecServerFaults == Init /\ [][NextServerFaults]_vars

(***************************************************************************)
(* Part 2.  RAGService.manage_context_length.                              *)
(*                                                                         *)
(* A string is the sequence of its tokens.  The tokens that the code looks *)
(* for are named; every other token is a word "w" or a number "n".         *)
(*   "**"  the two asterisks      "NL"  a newline      "BU"  the bullet    *)
(*   "CS"  Conversation Summary:  "RC"  Relevant Context:                  *)
(*   "TD"  Topics Discussed:      "RE"  Recent Context:                    *)
(*   "RQ"  Recent Questions:      "TM"  Total messages:                    *)
(***************************************************************************)
MaxTokens == 30        \* largest max_tokens passed to manage_context_length
MaxHits == 5           \* most lines of a Relevant Context section given by a caller
recent_window == 4     \* messages[-4:]
search_k == 2          \* k=2 of the tier searches
question_window == 2   \* user_messages[-2:]
topic_window == 3      \* topics[:3]

Header(name) == <<"**", name, "**">>
SummaryHeader == Header("CS")
RelevantHeader == Header("RC")
TopicsHeader == Header("TD")
RecentHeader == Header("RE")
QuestionsHeader == Header("RQ")
SectionNames == {"CS", "RC", "TD", "RE", "RQ"}

(* count_tokens: the number of tokens of the text. *)
count_tokens(text) == Len(text)

(* pat in s, s.split(pat)[0], s.split(pat)[1], s.strip(), s.replace(old, new) *)
Occurs(s, pat, i) ==
    /\ i + Len(pat) - 1 <= Len(s)
    /\ \A j \in 1..Len(pat) : s[i + j - 1] = pat[j]

Contains(s, pat) == \E i \in 1..(Len(s) + 1) : Occurs(s, pat, i)

Find(s, pat) ==
    CHOOSE i \in 1..(Len(s) + 1) :
        Occurs(s, pat, i) /\ \A j \in 1..(i - 1) : ~Occurs(s, pat, j)

Split0(s, pat) == IF Contains(s, pat) THEN SubSeq(s, 1, Find(s, pat) - 1) ELSE s

AfterFirst(s, pat) == SubSeq(s, Find(s, pat) + Len(pat), Len(s))

Split1(s, pat) == Split0(AfterFirst(s, pat), pat)

IsSpace(t) == t = "NL"

RECURSIVE Strip(_)
Strip(s) ==
    IF s = <<>> THEN s
    ELSE IF IsSpace(Head(s)) THEN Strip(Tail(s))
    ELSE IF IsSpace(s[Len(s)]) THEN Strip(SubSeq(s, 1, Len(s) - 1))
    ELSE s

RECURSIVE Replace(_, _, _)
Replace(s, old, new) ==
    IF old = <<>>
    THEN IF s = <<>> THEN new ELSE new \o <<Head(s)>> \o Replace(Tail(s), old, new)
    ELSE IF Contains(s, old)
         THEN Split0(s, old) \o new \o Replace(AfterFirst(s, old), old, new)
         ELSE s

RECURSIVE SplitLines(_)
SplitLines(s) ==
    IF Contains(s, <<"NL">>)
    THEN <<Split0(s, <<"NL">>)>> \o SplitLines(AfterFirst(s, <<"NL">>))
    ELSE <<s>>

RECURSIVE JoinLines(_)
JoinLines(lines) ==
    IF lines = <<>> THEN <<>>
    ELSE IF Len(lines) = 1 THEN lines[1]
    ELSE lines[1] \o <<"NL">> \o JoinLines(Tail(lines))

FirstLines(lines, n) == SubSeq(lines, 1, n)

(***************************************************************************)
(* The renderers whose output manage_context_length receives.              *)
(***************************************************************************)
Bulleted(texts) == [i \in 1..Len(texts) |-> <<"BU">> \o texts[i]]

Numbered(texts) == [i \in 1..Len(texts) |-> <<"n">> \o texts[i]]

get_recent_context(previews) ==
    RecentHeader \o <<"NL">> \o JoinLines(Bulleted(previews)) \o <<"NL", "NL">>

get_medium_context(hits, questions) ==
    JoinLines(
        (IF hits # <<>> THEN <<RelevantHeader>> \o Bulleted(hits) \o << <<>> >> ELSE <<>>)
        \o (IF hits = <<>> /\ questions # <<>>
            THEN <<QuestionsHeader>> \o Numbered(questions) \o << <<>> >> ELSE <<>>))

get_long_context_topics_unguarded(summary, hits, topics) ==
    JoinLines(
        (IF summary # <<>>
         THEN <<SummaryHeader, <<"BU">> \o summary, <<>> >> ELSE <<>>)
        \o (IF hits # <<>> THEN <<RelevantHeader>> \o Bulleted(hits) \o << <<>> >> ELSE <<>>)
        \o <<TopicsHeader>> \o Bulleted(topics) \o << <<>> >>)

get_long_context(summary, hits, topics) ==
    JoinLines(
        (IF summary # <<>>
         THEN <<SummaryHeader, <<"BU">> \o summary, <<>> >> ELSE <<>>)
        \o (IF hits # <<>> THEN <<RelevantHeader>> \o Bulleted(hits) \o << <<>> >> ELSE <<>>)
        \o (IF hits # <<>> /\ topics # <<>>
            THEN <<TopicsHeader>> \o Bulleted(topics) \o << <<>> >> ELSE <<>>))

(* summarize_conversation: "Discussed: ... Total messages: N", or         *)
(* "Conversation with N messages", or "".                                  *)
Summaries == {<<>>, <<"w", "TM", "n">>, <<"w", "n", "w">>}

(* long_context of test_advanced_rag.py: the summary is a bullet list that *)
(* starts with "Total messages: 15"; the relevant section holds 4 lines   *)
(* and the topics section 5 (here: up to MaxHits and up to topic_window).  *)
test_long_context(hits, topics) ==
    <<"NL">> \o JoinLines(
        <<SummaryHeader, <<"BU", "TM", "n">>, <<"BU", "w", "n">>, <<>>,
          RelevantHeader>> \o Bulleted(hits) \o << <<>>, TopicsHeader>>
        \o Bulleted(topics)) \o <<"NL">>

Previews == {<<"w">>, <<"w", "w">>}

Lists(n) == UNION {[1..m -> {<<"w">>}] : m \in 0..n}

HitLists(n) == UNION {[1..m -> Previews] : m \in 0..n}

RenderedContexts ==
    {<<>>}
    \cup {get_recent_context(p) : p \in Lists(recent_window) \ {<<>>}}
    \cup {get_medium_context(h, qs) : h \in HitLists(search_k), qs \in Lists(question_window)}
    \cup {get_long_context(sm, h, t) :
              sm \in Summaries, h \in HitLists(search_k), t \in Lists(topic_window)}
    \cup {test_long_context(h, t) :
              h \in Lists(MaxHits) \ {<<>>}, t \in Lists(topic_window) \ {<<>>}}

QueryTexts == {<<>>, <<"w">>}

(***************************************************************************)
(* manage_context_length(context, query, max_tokens)                       *)
(***************************************************************************)
(* Strategy 1a: drop the topics section and what follows it. *)
DropTopics(ctx) ==
    IF Contains(ctx, TopicsHeader) THEN Strip(Split0(ctx, TopicsHeader)) ELSE ctx

(* Strategy 1b: the summary section, cut down to its message count.  With  *)
(* no "Total messages:" in the section, split(...)[1] raises IndexError.   *)
SummarySection(ctx) == Split0(Split1(ctx, SummaryHeader), <<"**">>)

SummaryRaises(ctx) ==
    Contains(ctx, SummaryHeader) /\ ~Contains(SummarySection(ctx), <<"TM">>)

EssentialSummary(ctx) ==
    SummaryHeader \o <<"NL", "BU", "TM">>
        \o Strip(Split0(Split1(SummarySection(ctx), <<"TM">>), <<"BU">>))
        \o <<"NL", "NL">>

ReduceSummary(ctx) ==
    IF Contains(ctx, SummaryHeader)
    THEN Replace(ctx, SummarySection(ctx), EssentialSummary(ctx))
    ELSE ctx

(* Strategy 2: keep the first 4 lines of the relevant section. *)
RelevantSection(ctx) == Split0(Split1(ctx, RelevantHeader), <<"**">>)

RelevantLines(ctx) == SplitLines(Strip(RelevantSection(ctx)))

TruncateRelevant(ctx) ==
    IF Contains(ctx, RelevantHeader) /\ Len(RelevantLines(ctx)) > 4
    THEN Replace(ctx, RelevantSection(ctx),
                 JoinLines(FirstLines(RelevantLines(ctx), 4)) \o <<"NL">>)
    ELSE ctx

(* Strategy 3: only the first relevant item, or nothing. *)
KeepEssential(ctx) ==
    IF Contains(ctx, RelevantHeader)
    THEN IF Len(RelevantLines(ctx)) > 2
         THEN RelevantHeader \o <<"NL">>
                \o JoinLines(FirstLines(RelevantLines(ctx), 2)) \o <<"NL">> \o <<"NL">>
         ELSE ctx
    ELSE <<>>

StillTooLong_inverted(ctx, q, limit) == count_tokens(ctx \o q) <= limit

StillTooLong(ctx, q, limit) == count_tokens(ctx \o q) > limit

manage_context_length(ctx, q, limit) ==
    IF count_tokens(ctx \o q) <= limit THEN ctx
    ELSE LET c1 == DropTopics(ctx) IN
         IF SummaryRaises(c1) THEN c1          \* except: return context
         ELSE LET c3 == TruncateRelevant(ReduceSummary(c1)) IN
              IF StillTooLong(c3, q, limit) THEN KeepEssential(c3) ELSE c3

(***************************************************************************)
(* RAGService.validate_context_relevance(query, context).  Scores are in   *)
(* hundredths.  What the token model of a string does not fix is measured  *)
(* on the arguments and passed in:                                         *)
(*   chars        len(context) < 50 ("short"), > 1000 ("long"), "normal"   *)
(*   overlap      the number of words the query and the context share      *)
(*   topic_match  a word of the query occurs in the topics section         *)
(*   raises       an argument is not a string: the try block raises        *)
(***************************************************************************)
MaxOverlap == 4        \* most words a query and a context share

Max(a, b) == IF a >= b THEN a ELSE b

Measures ==
    [chars : {"short", "normal", "long"}, overlap : 0..MaxOverlap,
     topic_match : BOOLEAN, raises : BOOLEAN]

context_sections(ctx) == {name \in SectionNames : Contains(ctx, Header(name))}

SectionScore(ctx) ==
    IF "RC" \in context_sections(ctx)
    THEN IF Strip(RelevantSection(ctx)) # <<>> THEN 70 ELSE 0
    ELSE IF "RE" \in context_sections(ctx) THEN 50
    ELSE IF "RQ" \in context_sections(ctx) THEN 30
    ELSE 0

LengthScore(m) ==
    (IF m.chars = "long" THEN -10 ELSE 0) + (IF m.chars = "short" THEN -20 ELSE 0)

OverlapScore(ctx, m) ==
    IF m.overlap > 0 THEN Min(30, m.overlap * 10)
    ELSE IF "TD" \in context_sections(ctx) /\ m.topic_match THEN 20
    ELSE 0

TypesScore(ctx) == IF Cardinality(context_sections(ctx)) >= 2 THEN 10 ELSE 0

RelevanceIssues(ctx, m) ==
    (IF "RC" \in context_sections(ctx) /\ Strip(RelevantSection(ctx)) = <<>>
        THEN {"Relevant context section is empty"} ELSE {})
    \cup (IF context_sections(ctx) \cap {"RC", "RE", "RQ"} = {}
        THEN {"No relevant context section found"} ELSE {})
    \cup (IF m.chars = "long" THEN {"Context is too long"} ELSE {})
    \cup (IF m.chars = "short" THEN {"Context is too short"} ELSE {})
    \cup (IF m.overlap = 0 /\ "TD" \notin context_sections(ctx)
        THEN {"No word overlap between query and context"} ELSE {})

Normalize_without_clamp(score) == score

Normalize(score) == Max(0, Min(100, score))

validate_context_relevance(q, ctx, m) ==
    IF m.raises
    THEN [relevance_score |-> 0, has_relevant_context |-> FALSE, issues |-> {},
          error |-> TRUE]
    ELSE IF ctx = <<>>
    THEN [relevance_score |-> 0, has_relevant_context |-> FALSE,
          issues |-> {"No context generated"}, error |-> FALSE]
    ELSE [relevance_score |->
              Normalize(SectionScore(ctx) + LengthScore(m) + OverlapScore(ctx, m)
                        + TypesScore(ctx)),
          has_relevant_context |-> SectionScore(ctx) >= 50,
          issues |-> RelevanceIssues(ctx, m),
          error |-> FALSE]

InitContext ==
    /\ indexFile = Absent /\ metaFile = Absent
    /\ index = <<>> /\ metadata = <<>> /\ faults = 0
    /\ lastOp = OpRecord("init", NoConv, <<>>, TRUE, TRUE, TRUE)
    /\ context \in RenderedContexts
    /\ query \in QueryTexts
    /\ max_tokens \in 0..MaxTokens
    /\ managed = <<>>
    /\ phase = "called"
    /\ request = NoRequest /\ tier = "none"
    /\ measured = NoMeasure /\ validation = NoValidation
    /\ total_searches = 0 /\ successful_searches = 0 /\ total_results = 0
    /\ found = <<>>
    /\ handlers = [w \in Workers |-> Idle]
    /\ instances = NoInstances

Manage ==
    /\ phase = "called"
    /\ managed' = manage_context_length(context, query, max_tokens)
    /\ phase' = "returned"
    /\ UNCHANGED <<context, query, max_tokens, request, tier, measured, validation, instances>>
    /\ UNCHANGED <<storeVars, analyticsVars, serverVars>>

NextContext == Manage

(* One call of manage_context_length on a rendered context. *)
SpecContext == InitContext /\ [][NextContext]_vars

(***************************************************************************)
(* Part 3.  RAGService.generate_context and get_dynamic_context.           *)
(*                                                                         *)
(* get_dynamic_context asks self.vector_service (a VectorService) for      *)
(* get_conversation_messages(conversation_id).  VectorServiceMethods are   *)
(* the attributes the class defines; a call of any other name raises       *)
(* AttributeError, which the except clause turns into "".                  *)
(* A request carries what the calls below would read: the messages of the  *)
(* conversation (their roles) and the topics extract_topics would find.    *)
(***************************************************************************)
MaxMessages == 11      \* most messages of a conversation
short_limit == 3       \* len(conversation_messages) <= 3
medium_limit == 10     \* len(conversation_messages) <= 10
token_limit == 4000    \* self.token_limit
tier_min_score == 15   \* min_score=0.15 of the tier searches

VectorServiceMethods ==
    {"preprocess_query", "expand_query", "validate_index", "recover_index",
     "_load_or_create_index", "_save_index", "add_conversation_embeddings",
     "search_similar_messages", "get_conversation_context",
     "remove_conversation_embeddings", "get_index_stats", "get_search_analytics",
     "search_by_topics", "get_conversation_summary"}

HasMethod(name) == name \in VectorServiceMethods

IsUser(role) == role = "user"

LastN(seq, n) == SubSeq(seq, IF Len(seq) > n THEN Len(seq) - n + 1 ELSE 1, Len(seq))

FirstN(seq, n) == SubSeq(seq, 1, Min(n, Len(seq)))

Words(seq) == [i \in 1..Len(seq) |-> <<"w">>]

SelectTier(messages) ==
    IF messages = <<>> THEN "none"
    ELSE IF Len(messages) <= short_limit THEN "short"
    ELSE IF Len(messages) <= medium_limit THEN "medium"
    ELSE "long"

(* summarize_conversation, for a conversation of 3 messages or more. *)
summarize_conversation(messages, topics) ==
    IF Len(messages) < 3 THEN <<>>
    ELSE IF topics # <<>> THEN <<"w", "TM", "n">>
    ELSE <<"w", "n", "w">>

TierHits(req, idx, md) ==
    search_similar_messages(idx, md, req.q, req.conversation_id, search_k,
                            tier_min_score, req.embed_ok)

get_dynamic_context(req, idx, md) ==
    IF ~HasMethod("get_conversation_messages")
    THEN [tier |-> "error", text |-> <<>>]
    ELSE LET chosen == SelectTier(req.messages)
             hits == Words(TierHits(req, idx, md))
         IN [tier |-> chosen,
             text |->
               CASE chosen = "none" -> <<>>
                 [] chosen = "short" ->
                      get_recent_context(Words(LastN(req.messages, recent_window)))
                 [] chosen = "medium" ->
                      get_medium_context(hits,
                          Words(LastN(SelectSeq(req.messages, IsUser), question_window)))
                 [] chosen = "long" ->
                      get_long_context(summarize_conversation(req.messages, req.topics),
                                       hits, FirstN(req.topics, topic_window))]

(* The measures a string and a query of the token model can have. *)
Feasible(m, q, ctx) ==
    /\ ctx = <<>> => m.chars = "short"
    /\ (ctx = <<>> \/ q = <<>>) => (m.overlap = 0 /\ ~m.topic_match)
    /\ "TD" \notin context_sections(ctx) => ~m.topic_match

(* generate_context, lines 282-292: the analysis is logged, the managed *)
(* context is returned.                                                  *)
returned_context(managed_context, analysis) == managed_context

generate_context(req, idx, md, m) ==
    LET managed_context ==
            manage_context_length(get_dynamic_context(req, idx, md).text,
                                  <<"w">>, token_limit)
    IN returned_context(managed_context,
                        validate_context_relevance(<<"w">>, managed_context, m))

(* The stores a sequence of successful adds leaves, and the requests. *)
StoredLists(n) == UNION {[1..m -> Convs \X Texts] : m \in 0..n}

Alternating(n) == [i \in 1..n |-> IF i % 2 = 1 THEN "user" ELSE "assistant"]

AllAssistant(n) == [i \in 1..n |-> "assistant"]

Requests ==
    {[q |-> q, conversation_id |-> c, messages |-> ms, topics |-> t, embed_ok |-> ok] :
        q \in Queries, c \in Convs,
        ms \in {Alternating(n) : n \in 0..MaxMessages}
                \cup {AllAssistant(n) : n \in 1..MaxMessages},
        t \in Lists(1), ok \in BOOLEAN}

InitGenerate ==
    /\ \E stored \in StoredLists(MaxVectors) :
        /\ index = [i \in 1..Len(stored) |-> encode(stored[i][2])]
        /\ metadata = [i \in 1..Len(stored) |->
                [conversation_id |-> stored[i][1], content_preview |-> stored[i][2]]]
    /\ indexFile = (IF index = <<>> THEN Absent ELSE FileOf(index))
    /\ metaFile = (IF index = <<>> THEN Absent ELSE FileOf(metadata))
    /\ faults = 0
    /\ lastOp = OpRecord("init", NoConv, <<>>, TRUE, TRUE, TRUE)
    /\ request \in Requests
    /\ context = <<>> /\ query = <<"w">> /\ max_tokens = token_limit
    /\ managed = <<>> /\ tier = "none"
    /\ measured = NoMeasure /\ validation = NoValidation
    /\ phase = "called"
    /\ total_searches = 0 /\ successful_searches = 0 /\ total_results = 0
    /\ found = <<>>
    /\ handlers = [w \in Workers |-> Idle]
    /\ instances = NoInstances

Generate ==
    /\ phase = "called"
    /\ request # NoRequest
    /\ LET dynamic == get_dynamic_context(request, index, metadata) IN
        /\ tier' = dynamic.tier
        /\ context' = dynamic.text
        /\ \E m \in Measures :
              /\ ~m.raises
              /\ Feasible(m, <<"w">>, manage_context_length(dynamic.text, <<"w">>, token_limit))
              /\ measured' = m
              /\ managed' = generate_context(request, index, metadata, m)
              /\ validation' = validate_context_relevance(<<"w">>, managed', m)
        /\ IF dynamic.tier \in {"medium", "long"}
           THEN /\ total_searches' = total_searches + 1
                /\ SearchReturns(TierHits(request, index, metadata))
           ELSE UNCHANGED <<analyticsVars, found>>
    /\ phase' = "generated"
    /\ UNCHANGED <<query, max_tokens, request, instances, storeVars, handlers>>

(* _get_long_context called on its own: summarize_conversation and          *)
(* extract_topics_from_conversation read the conversation through          *)
(* vector_service.get_conversation_messages as well, and return "" and []  *)
(* when that call raises.                                                  *)
summary_returned(req) ==
    IF HasMethod("get_conversation_messages")
    THEN summarize_conversation(req.messages, req.topics) ELSE <<>>

topics_returned(req) ==
    IF HasMethod("get_conversation_messages") THEN req.topics ELSE <<>>

call_get_long_context(req, idx, md) ==
    get_long_context(summary_returned(req), Words(TierHits(req, idx, md)),
                     FirstN(topics_returned(req), topic_window))

LongContext ==
    /\ phase = "called"
    /\ request # NoRequest
    /\ Len(request.messages) > medium_limit
    /\ tier' = "long"
    /\ context' = call_get_long_context(request, index, metadata)
    /\ managed' = manage_context_length(context', <<"w">>, token_limit)
    /\ total_searches' = total_searches + 1
    /\ SearchReturns(TierHits(request, index, metadata))
    /\ phase' = "generated"
    /\ UNCHANGED <<query, max_tokens, request, measured, validation, instances, storeVars, handlers>>

NextGenerate == Generate

(* One call of generate_context on a store that successful adds built. *)
SpecGenerate == InitGenerate /\ [][NextGenerate]_vars

NextLongTier == Generate \/ LongContext

(* One call of generate_context, or of _get_long_context for a conversation *)
(* of more than medium_limit messages.                                      *)
SpecLongTier == InitGenerate /\ [][NextLongTier]_vars

(* validate_context_relevance called on a rendered context and a query, as *)
(* test_advanced_rag.py does.                                              *)
InitRelevance ==
    /\ indexFile = Absent /\ metaFile = Absent
    /\ index = <<>> /\ metadata = <<>> /\ faults = 0
    /\ lastOp = OpRecord("init", NoConv, <<>>, TRUE, TRUE, TRUE)
    /\ context \in RenderedContexts
    /\ query \in QueryTexts
    /\ measured \in {m \in Measures : Feasible(m, query, context)}
    /\ max_tokens = token_limit
    /\ managed = <<>>
    /\ validation = NoValidation
    /\ phase = "validating"
    /\ request = NoRequest /\ tier = "none"
    /\ total_searches = 0 /\ successful_searches = 0 /\ total_results = 0
    /\ found = <<>>
    /\ handlers = [w \in Workers |-> Idle]
    /\ instances = NoInstances

Validate ==
    /\ phase = "validating"
    /\ validation' = validate_context_relevance(query, context, measured)
    /\ phase' = "validated"
    /\ UNCHANGED <<context, query, max_tokens, managed, request, tier, measured, instances>>
    /\ UNCHANGED <<storeVars, analyticsVars, serverVars>>

NextRelevance == Validate \/ Generate

(* One call of validate_context_relevance, or one call of generate_context. *)
SpecRelevance == (InitRelevance \/ InitGenerate) /\ [][NextRelevance]_vars

(***************************************************************************)
(* DatabaseService.delete_conversation: the rows are deleted, then         *)
(* remove_conversation_embeddings is called and its result is not looked   *)
(* at (database_service.py:231-237): the call returns True.                *)
(***************************************************************************)
delete_conversation(conversation_id, mode) ==
    remove_conversation_embeddings(conversation_id, mode)

DeleteConversation ==
    \E c \in Convs, mode \in SaveModes :
        /\ ModeAllowed(mode)
        /\ delete_conversation(c, mode)
        /\ UNCHANGED <<contextVars, analyticsVars, serverVars>>

NextDelete == Add \/ DeleteConversation \/ NewService

(* The store of the DatabaseService: messages are added, conversations are *)
(* deleted, a save may fail and the process may be restarted.              *)
SpecDelete == Init /\ [][NextDelete]_vars

(***************************************************************************)
(* Part 4.  Several VectorService objects in one process.  DatabaseService *)
(* and RAGService each construct a VectorService of their own             *)
(* (database_service.py:18, rag_service.py:14); every object loads the two *)
(* files when it is constructed and afterwards works on its own            *)
(* self.index and self.metadata, saving them to the same two files.        *)
(* index and metadata are the object of the DatabaseService.               *)
(***************************************************************************)
MaxShared == 2         \* records one object holds

(* [RAGService(), VectorService(), DatabaseService()]: every constructor *)
(* loads the files the previous process left.                            *)
InitInstances ==
    /\ \E stored \in StoredLists(1) :
        LET idx == [i \in 1..Len(stored) |-> encode(stored[i][2])]
            md == [i \in 1..Len(stored) |->
                    [conversation_id |-> stored[i][1], content_preview |-> stored[i][2]]]
        IN /\ indexFile = (IF stored = <<>> THEN Absent ELSE FileOf(idx))
           /\ metaFile = (IF stored = <<>> THEN Absent ELSE FileOf(md))
    /\ index = load_or_create_index(indexFile, metaFile).index
    /\ metadata = load_or_create_index(indexFile, metaFile).metadata
    /\ instances = [o \in Owners |-> load_or_create_index(indexFile, metaFile)]
    /\ faults = 0
    /\ lastOp = OpRecord("init", NoConv, <<>>, TRUE, TRUE, TRUE)
    /\ context = <<>> /\ query = <<>> /\ max_tokens = 0
    /\ managed = <<>> /\ phase = "idle"
    /\ request = NoRequest /\ tier = "none"
    /\ measured = NoMeasure /\ validation = NoValidation
    /\ total_searches = 0 /\ successful_searches = 0 /\ total_results = 0
    /\ found = <<>>
    /\ handlers = [w \in Workers |-> Idle]

(* DatabaseService.add_message: one message, through its own object. *)
AddMessage ==
    \E c \in Convs, content \in Contents, ok \in BOOLEAN :
        /\ Fits(<<content>>, MaxShared)
        /\ add_conversation_embeddings(c, <<content>>, ok, "ok")
        /\ UNCHANGED <<contextVars, analyticsVars, serverVars>>

(* vector_service.add_conversation_embeddings on another object. *)
InstanceAdd ==
    \E o \in {"vector_service"}, c \in Convs, content \in Texts :
        LET own == instances[o]
            grown == [index |-> own.index \o Embeddings(<<content>>),
                      metadata |-> own.metadata \o MessageMetadata(c, <<content>>)]
        IN /\ Len(own.index) < MaxShared
           /\ instances' = [instances EXCEPT ![o] = grown]
           /\ save_index("ok", grown.index, grown.metadata)
           /\ UNCHANGED <<index, metadata, lastOp, analyticsVars, serverVars>>
           /\ UNCHANGED <<context, query, max_tokens, managed, phase, request, tier,
                          measured, validation>>

(* self.vector_service.search_similar_messages of another object. *)
InstanceSearch ==
    \E o \in Owners, q \in Queries, c \in Convs :
        /\ found' = search_similar_messages(instances[o].index, instances[o].metadata,
                                            q, c, search_k, tier_min_score, TRUE)
        /\ UNCHANGED <<storeVars, contextVars, analyticsVars, handlers>>

NextInstances == AddMessage \/ InstanceAdd \/ InstanceSearch

(* One process that holds three VectorService objects over the same files. *)
SpecInstances == InitInstances /\ [][NextInstances]_vars

(***************************************************************************)
(* Part 5.  Exceptions.  The outcome of a call is a return (with the       *)
(* Python type of the value) or a raise.  Each *_body is the try block of  *)
(* the method, which raises where a primitive it calls raises:             *)
(* model.encode (embed_ok), faiss.write_index / open (mode),               *)
(* index.reconstruct(i) for i >= ntotal, index.search with k = 0, and a    *)
(* call of an attribute the object lacks.  Catch is the except clause.     *)
(***************************************************************************)
Ret(type, value) == [kind |-> "return", type |-> type, value |-> value]

Raised(error) == [kind |-> "raise", type |-> error, value |-> <<>>]

Catch_reraises(outcome, type, fallback) == outcome

Catch(outcome, type, fallback) ==
    IF outcome.kind = "raise" THEN Ret(type, fallback) ELSE outcome

save_index_body(mode) ==
    IF mode = "ok" THEN Ret("None", <<>>) ELSE Raised("OSError")

save_index_call(mode) == Catch(save_index_body(mode), "None", <<>>)

validate_index_body(idx, md) == Ret("bool", validate(idx, md))

validate_index_call(idx, md) == Catch(validate_index_body(idx, md), "bool", FALSE)

recover_index_body(mode) ==
    IF save_index_call(mode).kind = "raise" THEN save_index_call(mode)
    ELSE Ret("bool", TRUE)

recover_index_call(mode) == Catch(recover_index_body(mode), "bool", FALSE)

add_body(conversation_id, messages, embed_ok, mode) ==
    IF ValidTexts(messages) = <<>> THEN Ret("bool", FALSE)
    ELSE IF ~embed_ok THEN Raised("encode")
    ELSE IF save_index_call(mode).kind = "raise" THEN save_index_call(mode)
    ELSE Ret("bool", TRUE)

add_call(conversation_id, messages, embed_ok, mode) ==
    Catch(add_body(conversation_id, messages, embed_ok, mode), "bool", FALSE)

remove_body(idx, md, conversation_id, mode) ==
    LET kept == KeptPositions(md, conversation_id, 1) IN
    IF \E j \in 1..Len(kept) : kept[j] > Len(idx) THEN Raised("reconstruct")
    ELSE IF save_index_call(mode).kind = "raise" THEN save_index_call(mode)
    ELSE Ret("bool", TRUE)

remove_call(idx, md, conversation_id, mode) ==
    Catch(remove_body(idx, md, conversation_id, mode), "bool", FALSE)

search_body(idx, md, q, conversation_id, k, min_score, embed_ok) ==
    IF ~embed_ok THEN Raised("encode")
    ELSE IF SearchK(idx, k) <= 0 THEN Raised("search")
    ELSE Ret("list", Collect(idx, md, q, conversation_id, k, Threshold(min_score),
                             TopK(idx, q, SearchK(idx, k), {}), <<>>))

search_call(idx, md, q, conversation_id, k, min_score, embed_ok) ==
    Catch(search_body(idx, md, q, conversation_id, k, min_score, embed_ok),
          "list", <<>>)

(* get_index_stats has no try block: nothing it reads can raise. *)
get_index_stats(idx, md) ==
    Ret("dict", [total_vectors |-> Len(idx),
                 conversations |->
                    Cardinality({md[i].conversation_id : i \in 1..Len(md)})])

get_dynamic_context_body(req, idx, md) ==
    IF ~HasMethod("get_conversation_messages") THEN Raised("AttributeError")
    ELSE Ret("str", get_dynamic_context(req, idx, md).text)

get_dynamic_context_call(req, idx, md) ==
    Catch(get_dynamic_context_body(req, idx, md), "str", <<>>)

generate_context_body(req, idx, md) ==
    LET dynamic == get_dynamic_context_call(req, idx, md) IN
    IF dynamic.kind = "raise" THEN dynamic
    ELSE Ret("str", manage_context_length(dynamic.value, <<"w">>, token_limit))

generate_context_call(req, idx, md) ==
    Catch(generate_context_body(req, idx, md), "str", <<>>)

(* The requests generate_context is asked on a store that saves may fail on. *)
FaultRequests == {r \in Requests : Len(r.messages) \in {0, 1, 4, MaxMessages}}

(***************************************************************************)
(* Vocabulary of the properties.                                           *)
(***************************************************************************)
Added == lastOp.op = "add"
Removed == lastOp.op = "remove"
Recovered == lastOp.op = "recover"

AllBlank(messages) == \A i \in 1..Len(messages) : messages[i] = Blank

RECURSIVE NonBlank(_)
NonBlank(messages) ==
    IF messages = <<>> THEN <<>>
    ELSE IF Head(messages) = Blank THEN NonBlank(Tail(messages))
    ELSE <<Head(messages)>> \o NonBlank(Tail(messages))

Aligned == Len(metadata) = Len(index)

NoRecord(c) == \A i \in 1..Len(metadata) : metadata[i].conversation_id # c

EmptyFor(c) ==
    \A q \in Queries, k \in Ks, ms \in MinScores, ok \in BOOLEAN :
        Search(q, c, k, ms, ok) = <<>>

(***************************************************************************)
(* C1: after any sequence of add, remove and recover calls on one          *)
(* VectorService, each having returned, the number of metadata records     *)
(* equals the number of vectors in the index.                              *)
(***************************************************************************)
C1_MetadataMatchesVectors ==
    lastOp.op \in {"add", "remove", "recover"} => Len(metadata) = Len(index)

(***************************************************************************)
(* C2: for every store state, query, k and min_score, a search returns at  *)
(* most k items, every returned item has score >= min_score, and when a    *)
(* conversation id is supplied every returned item carries that id.        *)
(***************************************************************************)
C2_BoundedResults ==
    \A q \in Queries, c \in ConvFilters, k \in Ks, ms \in MinScores, ok \in BOOLEAN :
        LET res == Search(q, c, k, ms, ok) IN
        /\ Len(res) <= k
        /\ \A i \in 1..Len(res) :
            /\ ms # NoScore => res[i].score >= ms
            /\ c # NoConv => res[i].conversation_id = c

(* A search that fills its k slots while a record of another conversation  *)
(* and a record below the threshold are in the store.                      *)
C2_Witness ==
    \E q \in Queries, ms \in MinScores :
        /\ ms # NoScore
        /\ Len(Search(q, "A", 1, ms, TRUE)) = 1
        /\ Len(metadata) = Len(index)
        /\ \E p \in 1..Len(metadata) :
            metadata[p].conversation_id = "B" /\ Score(q, index[p]) >= ms
        /\ Len(Search(q, NoConv, 2, NoScore, TRUE)) < Len(index)

(***************************************************************************)
(* C3: for two distinct conversations A and B in one store and fixed       *)
(* query, k and min_score, the list a search scoped to B returns is the    *)
(* same before and after a successful remove of A.                         *)
(***************************************************************************)
C3_RemovalIsolation ==
    [][(Removed' /\ lastOp'.ret) =>
        \A b \in Convs \ {lastOp'.conv}, q \in Queries, k \in Ks, ms \in MinScores :
            search_similar_messages(index', metadata', q, b, k, ms, TRUE)
                = search_similar_messages(index, metadata, q, b, k, ms, TRUE)]_vars

(***************************************************************************)
(* C4: once remove(A) has returned true, every search scoped to A returns  *)
(* the empty list, for every query, k and min_score, until a later add for *)
(* A: a successful remove(A) leaves no record of A, no call on that object *)
(* other than an add for A brings one back, and a store without a record   *)
(* of A answers every search scoped to A with the empty list.              *)
(***************************************************************************)
C4_RemovalComplete ==
    /\ [](\A c \in Convs : NoRecord(c) => EmptyFor(c))
    /\ [][\A c \in Convs :
            LET removedNow == Removed' /\ lastOp'.conv = c /\ lastOp'.ret
                addedNow == Added' /\ lastOp'.conv = c
                newObject == lastOp'.op = "init"
            IN (removedNow \/ (NoRecord(c) /\ ~addedNow /\ ~newObject))
                => NoRecord(c)']_vars

(* remove(A) returned true on a store that held records of A and of B. *)
C4_Witness ==
    /\ Removed /\ lastOp.ret /\ lastOp.conv = "A"
    /\ Len(indexFile.data) >= 1
    /\ \E i \in 1..Len(metadata) : metadata[i].conversation_id = "B"
    /\ EmptyFor("A")

SectionsOf(text) == {name \in SectionNames : Contains(text, Header(name))}

(***************************************************************************)
(* C5: for every rendered context, every query and every max_tokens >= 0,  *)
(* the context manage_context_length returns has a token count not above   *)
(* max_tokens.                                                             *)
(***************************************************************************)
C5_WithinBudget ==
    phase = "returned" => count_tokens(managed) <= max_tokens

(***************************************************************************)
(* C6: for a fixed context and query and budgets m1 <= m2, the output for  *)
(* m1 retains no more sections than the output for m2 (sections counted by *)
(* the section headers that occur in the text).                            *)
(***************************************************************************)
C6_SectionsMonotone ==
    phase = "returned" =>
        \A m1 \in 0..max_tokens :
            Cardinality(SectionsOf(manage_context_length(context, query, m1)))
                <= Cardinality(SectionsOf(managed))

(* The three outcomes for one context: a lower budget left only the first  *)
(* relevant item, this budget kept summary and relevant section.           *)
C6_Witness ==
    /\ phase = "returned"
    /\ SectionsOf(managed) = {"CS", "RC"}
    /\ managed # context
    /\ \E m1 \in 0..max_tokens :
        SectionsOf(manage_context_length(context, query, m1)) = {"RC"}

(***************************************************************************)
(* C7: validate_index() is true exactly when the metadata count equals the *)
(* vector count and the vector count is positive; it is false on a fresh   *)
(* store and true after one successful add on that store.                  *)
(***************************************************************************)
C7_ValidateIff ==
    /\ [](validate_index <=> (Len(metadata) = Len(index) /\ Len(index) > 0))
    /\ []((index = <<>> /\ metadata = <<>>) => ~validate_index)
    /\ [][(index = <<>> /\ metadata = <<>> /\ Added' /\ lastOp'.ret)
            => validate_index']_vars

(* The first successful add on an empty store has returned. *)
C7_Witness ==
    /\ Added /\ lastOp.ret /\ lastOp.pre_aligned
    /\ Len(index) = Len(NonBlank(lastOp.messages))
    /\ Len(metadata) = Len(index)
    /\ validate_index

(***************************************************************************)
(* C8 (as claimed): from any store state recover_index() leaves zero       *)
(* vectors and zero metadata records, validate_index() is then false, and  *)
(* a following add with at least one non-empty message returns true, after *)
(* which validate_index() is true.                                         *)
(***************************************************************************)
C8_RecoverThenAdd ==
    [][/\ Recovered' =>
            (lastOp'.ret /\ index' = <<>> /\ metadata' = <<>> /\ ~validate_index')
       /\ (Recovered /\ Added' /\ ~AllBlank(lastOp'.messages))
            => (lastOp'.ret /\ validate_index')]_vars

(***************************************************************************)
(* C8 (amended): as C8, for a following add whose embedding call succeeds. *)
(***************************************************************************)
C8_RecoverThenEmbeddedAdd ==
    [][/\ Recovered' =>
            (lastOp'.ret /\ index' = <<>> /\ metadata' = <<>> /\ ~validate_index')
       /\ (Recovered /\ Added' /\ ~AllBlank(lastOp'.messages) /\ lastOp'.embed_ok)
            => (lastOp'.ret /\ validate_index')]_vars

(* recover_index() has returned on a store whose counts differed. *)
C8_Witness ==
    Recovered /\ ~lastOp.pre_aligned /\ index = <<>> /\ metadata = <<>>

(***************************************************************************)
(* C9: an add whose message list has no message with non-whitespace        *)
(* content (the empty list included), or whose embedding call fails,       *)
(* returns false and leaves the index, the metadata and the two files      *)
(* unchanged.                                                              *)
(***************************************************************************)
C9_FailedAddChangesNothing ==
    [][(Added' /\ (AllBlank(lastOp'.messages) \/ ~lastOp'.embed_ok))
        => (~lastOp'.ret /\ UNCHANGED <<index, metadata, indexFile, metaFile>>)]_vars

(* A blank-only add has returned false on a populated, persisted store. *)
C9_Witness ==
    /\ Added /\ ~lastOp.ret /\ lastOp.messages = <<Blank>>
    /\ index # <<>> /\ indexFile.exists /\ metaFile.exists

(***************************************************************************)
(* C10: a successful add appends exactly one vector and one metadata       *)
(* record per message that is non-empty after strip(), in input order,     *)
(* each record carrying the conversation id, nothing for blank messages;   *)
(* the records stored before keep their positions.                         *)
(***************************************************************************)
C10_AddAppendsInOrder ==
    [][(Added' /\ lastOp'.ret) =>
        LET texts == NonBlank(lastOp'.messages)
            n == Len(texts)
        IN /\ Len(index') = Len(index) + n
           /\ Len(metadata') = Len(metadata) + n
           /\ \A i \in 1..Len(index) : index'[i] = index[i]
           /\ \A i \in 1..Len(metadata) : metadata'[i] = metadata[i]
           /\ \A j \in 1..n :
                /\ index'[Len(index) + j] = encode(texts[j])
                /\ metadata'[Len(metadata) + j] =
                     [conversation_id |-> lastOp'.conv, content_preview |-> texts[j]]]_vars

(* The list with a blank in the middle was added after two earlier records. *)
C10_Witness ==
    /\ Added /\ lastOp.ret /\ lastOp.messages = <<"t2", Blank, "t1">>
    /\ Len(index) = 4 /\ Len(metadata) = 4

(***************************************************************************)
(* C13: every item a search returns is among the min(3*k, total) best      *)
(* scoring stored vectors (fewer than that many stored vectors score       *)
(* strictly higher), and the returned list is in non-increasing score      *)
(* order.                                                                  *)
(***************************************************************************)
C13_CandidatesAndOrder ==
    \A q \in Queries, c \in ConvFilters, k \in Ks, ms \in MinScores :
        LET res == Search(q, c, k, ms, TRUE)
            better(sc) == {p \in 1..Len(index) : Score(q, index[p]) > sc}
        IN /\ \A i \in 1..(Len(res) - 1) : res[i].score >= res[i + 1].score
           /\ \A i \in 1..Len(res) :
                Cardinality(better(res[i].score)) < Min(3 * k, Len(index))

(* A record of B scores above the threshold but is not among the 3*k best, *)
(* and the scoped search for B returns nothing; an unscoped search returns *)
(* two items of different scores.                                          *)
C13_Witness ==
    /\ Len(index) = Len(metadata)
    /\ \E p \in 1..Len(metadata) :
        metadata[p].conversation_id = "B" /\ Score("q1", index[p]) >= 15
    /\ Search("q1", "B", 1, 15, TRUE) = <<>>
    /\ LET res == Search("q1", NoConv, 2, 15, TRUE)
       IN Len(res) = 2 /\ res[1].score > res[2].score

(***************************************************************************)
(* C14: when the write of the index file or of the metadata file fails in  *)
(* add, remove or recover, the call still returns true and the in-memory   *)
(* index and metadata hold the mutation: the appended vectors and records  *)
(* (add), the records of the other conversations only (remove), nothing    *)
(* (recover).                                                              *)
(***************************************************************************)
C14_WriteFailureKeepsMutation ==
    [][(faults' = faults + 1) =>
        LET texts == NonBlank(lastOp'.messages)
            other(m) == m.conversation_id # lastOp'.conv
        IN /\ lastOp'.op \in {"add", "remove", "recover"}
           /\ lastOp'.ret = TRUE
           /\ Added' =>
                /\ index' = index \o [j \in 1..Len(texts) |-> encode(texts[j])]
                /\ metadata' = metadata \o
                     [j \in 1..Len(texts) |->
                        [conversation_id |-> lastOp'.conv, content_preview |-> texts[j]]]
           /\ Removed' =>
                /\ metadata' = SelectSeq(metadata, other)
                /\ Len(index') = Len(metadata')
           /\ Recovered' => (index' = <<>> /\ metadata' = <<>>)]_vars

(* An add returned true although the metadata file was not written: the    *)
(* file still holds the records of before.                                 *)
C14_Witness ==
    /\ Added /\ lastOp.ret
    /\ indexFile.exists /\ indexFile.data = index
    /\ metaFile.data # metadata
    /\ Len(metadata) = 2

(***************************************************************************)
(* C15: after an add, remove or recover that returned true and whose file  *)
(* writes succeeded, the two files hold the in-memory index and metadata,  *)
(* so a VectorService constructed over them holds the same records in the  *)
(* same order; constructed over absent files, a store is empty.            *)
(***************************************************************************)
C15_PersistenceRoundTrip ==
    /\ [][(lastOp'.op \in {"add", "remove", "recover"} /\ lastOp'.ret
            /\ faults' = faults) =>
            /\ indexFile'.exists /\ metaFile'.exists
            /\ load_or_create_index(indexFile', metaFile')
                 = [index |-> index', metadata |-> metadata']]_vars
    /\ [][(lastOp.op \in {"add", "remove", "recover"} /\ lastOp.ret
            /\ indexFile.data = index /\ metaFile.data = metadata
            /\ indexFile.exists /\ metaFile.exists
            /\ lastOp'.op = "init") =>
            (index' = index /\ metadata' = metadata)]_vars
    /\ [][(lastOp'.op = "init" /\ ~indexFile.exists /\ ~metaFile.exists) =>
            (index' = <<>> /\ metadata' = <<>>)]_vars

(* A new VectorService was constructed over the files a successful add of  *)
(* two records left, and holds both records.                               *)
C15_Witness ==
    /\ lastOp.op = "init"
    /\ indexFile.exists /\ metaFile.exists
    /\ Len(index) = 2 /\ Len(metadata) = 2
    /\ indexFile.data = index /\ metaFile.data = metadata
    /\ metadata[1].conversation_id # metadata[2].conversation_id

(***************************************************************************)
(* C16: a VectorService under construction loads the persisted state only  *)
(* if both files exist and their record counts agree, and starts empty in  *)
(* every other case; so the metadata count equals the vector count right   *)
(* after construction.                                                     *)
(***************************************************************************)
C16_StartupConsistent ==
    [][(lastOp'.op = "init") =>
        /\ IF /\ indexFile.exists /\ metaFile.exists
              /\ Len(indexFile.data) = Len(metaFile.data)
           THEN index' = indexFile.data /\ metadata' = metaFile.data
           ELSE index' = <<>> /\ metadata' = <<>>
        /\ Len(metadata') = Len(index')]_vars

(***************************************************************************)
(* C11: while a remove is between the start of its rebuild and its return, *)
(* no add, search or other call is in progress on the store, and the       *)
(* metadata the remove swaps in is the current metadata without the        *)
(* records of the removed conversation: a record of another conversation   *)
(* that an add stored is still in the store after the remove.              *)
(***************************************************************************)
RemovePcs == {"remove_swap_index", "remove_swap_metadata", "remove_save"}

C11_RemoveExclusive ==
    /\ [](\A w \in Workers :
            handlers[w].pc \in RemovePcs =>
                \A v \in Workers \ {w} : handlers[v].pc = "idle")
    /\ [][\A w \in Workers :
            (At(w, "remove_swap_metadata") /\ handlers'[w].pc = "remove_save") =>
                LET other(m) == m.conversation_id # handlers[w].conv
                IN /\ metadata' = SelectSeq(metadata, other)
                   /\ Len(index') = Len(metadata')]_vars

(* remove("A") has swapped the index and not yet the metadata; the record  *)
(* of B stored by an earlier add is in what it swaps in.                   *)
C11_Witness ==
    \E w \in Workers :
        /\ At(w, "remove_swap_metadata")
        /\ handlers[w].conv = "A"
        /\ Len(metadata) = 2 /\ Len(index) = 1
        /\ Len(handlers[w].new_metadata) = 1
        /\ handlers[w].new_metadata[1].conversation_id = "B"

(***************************************************************************)
(* C12: no search reads self.index or self.metadata while the vector count *)
(* differs from the metadata count, and none is in progress while an add,  *)
(* a remove or a recover stands between its two assignments.               *)
(***************************************************************************)
SearchReadPcs == {"search_index", "search_metadata"}

C12_SearchSeesAlignedStore ==
    /\ [](\A w \in Workers :
            handlers[w].pc \in {"add_metadata", "remove_swap_metadata", "recover_metadata"} =>
                \A v \in Workers \ {w} : handlers[v].pc \notin SearchReadPcs)
    /\ [][\A w \in Workers :
            (handlers[w].pc \in SearchReadPcs /\ handlers'[w].pc # handlers[w].pc) =>
                Len(index) = Len(metadata)]_vars

(***************************************************************************)
(* C17: the three counters never decrease; total_searches grows by one     *)
(* exactly when a search_similar_messages call starts; when a search       *)
(* returns a non-empty list successful_searches grows by one and           *)
(* total_results by the length of the list, and otherwise neither changes; *)
(* successful_searches <= total_searches and <= total_results always.      *)
(***************************************************************************)
C17_AnalyticsCounters ==
    /\ [](successful_searches <= total_searches /\ successful_searches <= total_results)
    /\ [][LET starts == \E w \in Workers :
                    At(w, "idle") /\ handlers'[w].pc = "search_encode"
              returns == \E w \in Workers :
                    handlers[w].pc \in {"search_encode", "search_index", "search_metadata"}
                    /\ handlers'[w].pc = "idle"
          IN /\ total_searches' = IF starts THEN total_searches + 1 ELSE total_searches
             /\ successful_searches' =
                    IF returns /\ found' # <<>> THEN successful_searches + 1
                    ELSE successful_searches
             /\ total_results' =
                    IF returns /\ found' # <<>> THEN total_results + Len(found')
                    ELSE total_results
             /\ total_searches' >= total_searches
             /\ successful_searches' >= successful_searches
             /\ total_results' >= total_results]_vars

(* Two searches have returned: one found two items, the last one none. *)
C17_Witness ==
    /\ total_searches = 2 /\ successful_searches = 1 /\ total_results = 2
    /\ found = <<>> /\ Len(index) = 2
    /\ \A w \in Workers : At(w, "idle")

Returns(outcome, type) == outcome.kind = "return" /\ outcome.type = type

(***************************************************************************)
(* C18: in every store state (aligned, mismatched or empty) and under any  *)
(* failure of the embedding provider or of storage, none of add, search,   *)
(* remove, validate, recover, generate_context and get_index_stats raises  *)
(* to its caller: add, remove, validate and recover return a boolean,      *)
(* search a list, generate_context a string, get_index_stats a record.     *)
(***************************************************************************)
C18_NoExceptionEscapes ==
    /\ \A c \in Convs, msgs \in MessageLists, ok \in BOOLEAN, mode \in SaveModes :
          Returns(add_call(c, msgs, ok, mode), "bool")
    /\ \A c \in Convs, mode \in SaveModes :
          Returns(remove_call(index, metadata, c, mode), "bool")
    /\ \A mode \in SaveModes : Returns(recover_index_call(mode), "bool")
    /\ Returns(validate_index_call(index, metadata), "bool")
    /\ \A q \in Queries, c \in ConvFilters, k \in Ks, ms \in MinScores, ok \in BOOLEAN :
          Returns(search_call(index, metadata, q, c, k, ms, ok), "list")
    /\ \A r \in FaultRequests :
          Returns(generate_context_call(r, index, metadata), "str")
    /\ Returns(get_index_stats(index, metadata), "dict")

(* A remove on a store with more metadata than vectors: reconstruct raised, *)
(* the call returned False.                                                 *)
C18_Witness ==
    /\ Removed /\ lastOp.ret = FALSE /\ ~lastOp.pre_aligned
    /\ Len(metadata) > Len(index)
    /\ remove_body(index, metadata, lastOp.conv, "ok").kind = "raise"
    /\ remove_call(index, metadata, lastOp.conv, "ok") = Ret("bool", FALSE)

ExpectedTier(n) ==
    IF n = 0 THEN "none"
    ELSE IF n <= 3 THEN "short"
    ELSE IF n <= 10 THEN "medium"
    ELSE "long"

(***************************************************************************)
(* C19: get_dynamic_context selects the tier from the number n of messages *)
(* of the conversation alone: none (empty string) for n = 0, Short for     *)
(* 1 <= n <= 3, Medium for 3 < n <= 10, Long for n > 10.                    *)
(***************************************************************************)
C19_TierByMessageCount ==
    phase = "generated" =>
        LET expected == ExpectedTier(Len(request.messages)) IN
        /\ expected = "none" => context = <<>>
        /\ expected # "none" => tier = expected
        /\ expected = "short" => SectionsOf(context) = {"RE"}
        /\ expected = "medium" => SectionsOf(context) \subseteq {"RC", "RQ"}
        /\ expected = "long" => SectionsOf(context) = {"CS"} \cup
                (IF TierHits(request, index, metadata) = <<>> THEN {}
                 ELSE IF request.topics = <<>> THEN {"RC"} ELSE {"RC", "TD"})

(***************************************************************************)
(* C20: for a conversation of the Medium tier (3 < n <= 10) the generated  *)
(* context holds the Relevant Context section exactly when the search      *)
(* scoped to the conversation returns a hit; with no hit it holds the      *)
(* Recent Questions section when the conversation has a user message; the  *)
(* two sections never appear together.                                     *)
(***************************************************************************)
C20_MediumTierSections ==
    (phase = "generated" /\ ExpectedTier(Len(request.messages)) = "medium") =>
        LET hits == TierHits(request, index, metadata)
            users == SelectSeq(request.messages, IsUser)
        IN /\ Contains(managed, RelevantHeader) <=> hits # <<>>
           /\ (hits = <<>> /\ users # <<>>) => Contains(managed, QuestionsHeader)
           /\ ~(Contains(managed, RelevantHeader) /\ Contains(managed, QuestionsHeader))

OverBudget(ctx) == count_tokens(ctx \o query) > max_tokens

(***************************************************************************)
(* C21: budget compression reduces the sections in the order topics,       *)
(* summary, relevant context, re-measures after every step and stops at    *)
(* the first step that brings the context within max_tokens: when dropping *)
(* the topics section is enough, the result is the context without its     *)
(* topics section (summary and relevant context intact); when reducing the *)
(* summary is then enough, the relevant context is intact.                 *)
(***************************************************************************)
C21_StopsAtFirstFit ==
    phase = "returned" =>
        LET c1 == DropTopics(context) IN
        /\ OverBudget(context) /\ ~OverBudget(c1) => managed = c1
        /\ OverBudget(c1) /\ ~SummaryRaises(c1) /\ ~OverBudget(ReduceSummary(c1))
              => managed = ReduceSummary(c1)

(* The positions of the records of other conversations, and the j-th of them. *)
OtherPositions(c) == {i \in 1..Len(metadata) : metadata[i].conversation_id # c}

NthOther(c, j) ==
    CHOOSE i \in OtherPositions(c) : Cardinality({o \in OtherPositions(c) : o < i}) = j - 1

(***************************************************************************)
(* C22: a remove_conversation_embeddings(A) that returns true keeps        *)
(* exactly the records whose conversation_id is not A, in their previous   *)
(* order, and each kept metadata record is at the position of the vector   *)
(* it was paired with before.                                              *)
(***************************************************************************)
C22_RemoveKeepsOthersPaired ==
    [][(Removed' /\ lastOp'.ret) =>
          LET c == lastOp'.conv
              n == Cardinality(OtherPositions(c))
          IN /\ Len(metadata') = n /\ Len(index') = n
             /\ \A j \in 1..n :
                   /\ metadata'[j] = metadata[NthOther(c, j)]
                   /\ index'[j] = index[NthOther(c, j)]]_vars

(* remove(A) returned true and left two records of B with different vectors. *)
C22_Witness ==
    /\ Removed /\ lastOp.ret /\ lastOp.conv = "A"
    /\ Len(index) = 2 /\ Len(metadata) = 2
    /\ index[1] # index[2]
    /\ metadata[1].content_preview # metadata[2].content_preview
    /\ \A i \in 1..2 : encode(metadata[i].content_preview) = index[i]

C24_ScoreInRangeNeverGates ==
    /\ phase \in {"validated", "generated"} =>
          (validation.relevance_score >= 0 /\ validation.relevance_score <= 100)
    /\ phase = "validated" =>
          /\ (context = <<>> /\ ~measured.raises) =>
                (validation.relevance_score = 0
                    /\ validation.issues = {"No context generated"})
          /\ measured.raises => (validation.error /\ validation.relevance_score = 0)
    /\ phase = "generated" =>
          managed = manage_context_length(context, <<"w">>, token_limit)

(* A context with a relevant section, a second section and three shared   *)
(* words: 0.7 + 0.3 + 0.1 is cut to 1.                                    *)
C24_Witness ==
    /\ phase = "validated"
    /\ {"RC", "CS"} \subseteq context_sections(context)
    /\ measured.overlap >= 3 /\ measured.chars = "normal" /\ ~measured.raises
    /\ validation.relevance_score = 100

(***************************************************************************)
(* C25: a remove_conversation_embeddings that fails during the rebuild     *)
(* (reconstruct raises because the metadata outnumber the vectors) returns *)
(* false and leaves the index, the metadata and both persisted files as    *)
(* they were before the call.                                              *)
(***************************************************************************)
C25_FailedRemoveChangesNothing ==
    [][(Removed' /\ ~lastOp'.ret) =>
          /\ ~Aligned
          /\ UNCHANGED <<index, metadata, indexFile, metaFile>>]_vars

(* remove(B) returned false on a store that holds a record of A and no    *)
(* vector; the files are the ones the restart loaded.                     *)
C25_Witness ==
    /\ Removed /\ ~lastOp.ret /\ lastOp.conv = "B"
    /\ index = <<>> /\ Len(metadata) = 1
    /\ metadata[1].conversation_id = "A"
    /\ indexFile = FileOf(index) /\ metaFile = FileOf(metadata)

(* The records of conversation c that score at least the threshold. *)
Eligible(q, c, min_score) ==
    {i \in 1..Len(metadata) :
        /\ i <= Len(index)
        /\ metadata[i].conversation_id = c
        /\ Score(q, index[i]) >= Threshold(min_score)}

(***************************************************************************)
(* C26: a search scoped to conversation c, with m records of c scoring at  *)
(* least min_score, returns min(k, m) items, all of c, and no record of c  *)
(* left out scores higher than a returned one, whatever other              *)
(* conversations hold in the store.                                        *)
(***************************************************************************)
C26_ScopedSearchNotStarved ==
    \A q \in Queries, c \in Convs, k \in 1..MaxK, ms \in MinScores :
        LET res == Search(q, c, k, ms, TRUE)
            m == Cardinality(Eligible(q, c, ms))
        IN /\ Len(res) = Min(k, m)
           /\ \A j \in 1..Len(res) : res[j].conversation_id = c
           /\ Len(res) > 0 =>
                 Cardinality({i \in Eligible(q, c, ms) :
                                 Score(q, index[i]) > res[Len(res)].score}) < Len(res)

(***************************************************************************)
(* C27: in every reachable state, also after a write that failed between   *)
(* the two files, the persisted index file and the persisted metadata file *)
(* hold the same number of records (both present or both absent), so a     *)
(* startup never loads an index and a metadata list of different lengths.  *)
(***************************************************************************)
C27_FilesDescribeSameRecords ==
    /\ indexFile.exists = metaFile.exists
    /\ Len(indexFile.data) = Len(metaFile.data)
    /\ LET loaded == load_or_create_index(indexFile, metaFile)
       IN Len(loaded.index) = Len(loaded.metadata)

(* What a search of object o can return for a record: the record is in o. *)
VisibleTo(o, conv, text) ==
    \E q \in Queries :
        \E j \in 1..Len(search_similar_messages(instances[o].index, instances[o].metadata,
                                                q, conv, search_k, tier_min_score, TRUE)) :
            search_similar_messages(instances[o].index, instances[o].metadata,
                                    q, conv, search_k, tier_min_score, TRUE)[j]
                .content_preview = text

Persisted(file, record) == \E i \in 1..Len(file.data) : file.data[i] = record

(***************************************************************************)
(* C28: within one process a message stored through                        *)
(* DatabaseService.add_message, whose embedding add succeeded, is visible  *)
(* to the later searches of that process, those RAGService runs through    *)
(* its own VectorService included; and a save by one VectorService object  *)
(* keeps the records another object over the same files saved earlier.     *)
(***************************************************************************)
C28_SharedStoreAcrossInstances ==
    /\ [](\A i \in 1..Len(metadata) :
            VisibleTo("rag_service", metadata[i].conversation_id,
                      metadata[i].content_preview))
    /\ [][\A i \in 1..Len(metaFile.data) :
            Persisted(metaFile', metaFile.data[i])]_vars

(* No search, scoped or not, returns a message of conversation c. *)
NeverFound(c) ==
    \A q \in Queries, f \in ConvFilters, k \in Ks, ms \in MinScores :
        \A j \in 1..Len(Search(q, f, k, ms, TRUE)) :
            Search(q, f, k, ms, TRUE)[j].conversation_id # c

(***************************************************************************)
(* C29: after DatabaseService.delete_conversation(A) has returned true the *)
(* vector store holds no record of A, and no later search, scoped or       *)
(* unscoped, returns a message of A.                                       *)
(***************************************************************************)
C29_DeletedConversationGone ==
    [][\A c \in Convs :
          (Removed' /\ lastOp'.conv = c) => (NoRecord(c)' /\ NeverFound(c)')]_vars

(***************************************************************************)
(* C30: manage_context_length returns its input unchanged when             *)
(* count(context + query) <= max_tokens, and otherwise a context whose     *)
(* token count is not greater than that of the input.                      *)
(***************************************************************************)
C30_NeverLonger ==
    phase = "returned" =>
        /\ ~OverBudget(context) => managed = context
        /\ OverBudget(context) => count_tokens(managed) <= count_tokens(context)

====
